---------------------------- MODULE Spec2Model ----------------------------
(***************************************************************************)
(* Model of wavefront.py, the top level script that runs Wavefront         *)
(* "commands": parse_args / WavefrontConfiguration build the task list,    *)
(* main hands control to execute_commands, which either runs one command   *)
(* in the main thread (ad-hoc mode) or starts one daemon thread per        *)
(* configured task and supervises them with the join(1) polling loop.      *)
(*                                                                         *)
(* Thread 0 is the main thread's own call of execute_command (ad-hoc       *)
(* mode); threads 1..MaxThreads are the workers of multi-task mode.        *)
(***************************************************************************)
EXTENDS Integers, Sequences, FiniteSets, TLC

\* ------------------------------------------------------------------ bounds
\* Largest number of entries of the configuration's `threads` list.
MaxThreads == 2

\* ------------------------------------------------------- program constants
\* Keys of the INSTALLED_COMMANDS dictionary.
INSTALLED_COMMANDS == {"newrelic", "awsmetrics", "systemchecker"}

\* --------------------------------------------------------- input alphabets
\* Contents of the thread-<name> sections a configuration file may hold:
\* a command with the default delay, a command with a delay of 5 seconds,
\* and a command that is no key of INSTALLED_COMMANDS.
Sections ==
    {[command |-> "systemchecker", delay |-> 0],
     [command |-> "awsmetrics", delay |-> 5],
     [command |-> "doesnotexist", delay |-> 0]}

\* Commands chosen on the command line (argparse only accepts sub-commands
\* that parse_args registered, all of them keys of INSTALLED_COMMANDS).
AdhocCommands == {"newrelic", "systemchecker"}

\* Messages of the errors a command's execute may raise.
Messages == {"bad key"}

SeqUpTo(S, n) == UNION {[1..k -> S] : k \in 0..n}

Workers == 1..MaxThreads
MainThread == 0
Callers == {MainThread} \cup Workers

\* No exception in flight.
NoErr == [type |-> "none", message |-> ""]

VARIABLES
    input,          \* command line / configuration file contents
    cli,            \* parse_args' loop over INSTALLED_COMMANDS: the commands
                    \* visited, given a sub-parser, skipped
    pc,             \* position of the main thread
    outcome,        \* how the process ended: "none" while running
    idx,            \* index of the for loop the main thread is in
    thread_configs, \* WavefrontConfiguration.thread_configs
    resolved,       \* the calls of get_command_object that returned
    obj_verbose,    \* the `verbose` attribute of each command instance
    pidlock,        \* PID lock file of the daemon context
    handlers,       \* utils.setup_signal_handlers has run
    cancel,         \* utils.CANCEL_WORKERS_EVENT.is_set()
    threads,        \* execute_commands' local list `threads`
    threads_alive,  \* execute_commands' local list `threads_alive`
    ec,             \* per caller: state of its execute_command call
    waited,         \* the main thread has blocked in a wait
    waits_after_cancel, \* joins begun after the flag was set
    alive_at_cancel     \* workers alive when the flag was set

vars == <<input, cli, pc, outcome, idx, thread_configs, resolved, obj_verbose,
          pidlock, handlers, cancel, threads, threads_alive, ec, waited,
          waits_after_cancel, alive_at_cancel>>


\* ----------------------------------------------------------------- helpers
\* str() of a Python bool, as stored in an instance's verbose attribute.
Str(b) == IF b THEN "True" ELSE "False"

\* list.remove(x): drops the first occurrence of x.
RECURSIVE Remove(_, _)
Remove(list, x) ==
    IF list = <<>> THEN <<>>
    ELSE IF Head(list) = x THEN Tail(list)
    ELSE <<Head(list)>> \o Remove(Tail(list), x)

\* x in list
In(x, list) == \E k \in 1..Len(list) : list[k] = x

\* `except Exception`: the exception classes the clause matches.
IsException(type) == type \in {"KeyError", "ImportError", "ValueError"}

\* Outcomes of command_object.execute(args).
ExecuteResults ==
    {[kind |-> "return", type |-> "none", message |-> ""]}
    \cup {[kind |-> "raise", type |-> "ValueError", message |-> m] : m \in Messages}
    \cup {[kind |-> "raise", type |-> "SystemExit", message |-> ""]}

\* ------------------------------------------------------- command registry
\* Identities of the objects the process may build: `fresh` below is the
\* identity the interpreter gives the object a call of the class builds,
\* one per call site: pass k of the configuration loop, and the
\* execute_command of caller t.
Objects == 1..(2 * MaxThreads + 1)
ConfigObject(k) == k
CallObject(t) == MaxThreads + 1 + t

\* The instance a same-named earlier call returned, if any (a registry that
\* caches one instance per command name).
CachedInstance(command_name, fresh) ==
    IF \E r \in resolved : r.command = command_name
    THEN (CHOOSE r \in resolved : r.command = command_name).inst
    ELSE fresh

\* getattr(command_module, class_name)(): calling the class builds a new
\* object.
NewInstance(command_name, fresh) == fresh

\* get_command_object(command_name); `loads` tells whether importing the
\* module and instantiating the class succeed this time.
get_command_object(command_name, loads, fresh) ==
    IF command_name \notin INSTALLED_COMMANDS
    THEN [err |-> [type |-> "KeyError", message |-> command_name], inst |-> 0]
    ELSE IF ~loads
    THEN [err |-> [type |-> "ImportError", message |-> "load failed"], inst |-> 0]
    ELSE [err |-> NoErr, inst |-> NewInstance(command_name, fresh)]

\* The instance store after get_command_object returned `inst`: a new
\* object has the verbose attribute its class gives it.
Instantiated(inst) ==
    IF obj_verbose[inst] = "none"
    THEN [obj_verbose EXCEPT ![inst] = "unset"]
    ELSE obj_verbose

\* ------------------------------------------------------------------- Init
Inputs ==
    [config : {TRUE}, verbose : BOOLEAN, daemon : BOOLEAN, command : {"-"},
     sections : SeqUpTo(Sections, MaxThreads)]
    \cup
    [config : {FALSE}, verbose : BOOLEAN, daemon : BOOLEAN,
     command : AdhocCommands, sections : {<<>>}]

Idle == [pc |-> "idle", command |-> "-", verbose |-> FALSE, delay |-> 0,
         daemon |-> FALSE, inst |-> 0, calls |-> 0, err |-> NoErr,
         failed |-> "none", printed |-> <<>>]

Init ==
    /\ input \in Inputs
    /\ cli = [visited |-> {}, added |-> {}, skipped |-> {}]
    /\ pc = "parse_args"
    /\ outcome = "none"
    /\ idx = 0
    /\ thread_configs = <<>>
    /\ resolved = {}
    /\ obj_verbose = [o \in Objects |-> "none"]
    /\ pidlock = "none"
    /\ handlers = FALSE
    /\ cancel = FALSE
    /\ threads = <<>>
    /\ threads_alive = <<>>
    /\ ec = [t \in Callers |-> Idle]
    /\ waited = FALSE
    /\ waits_after_cancel = 0
    /\ alive_at_cancel = 0


\* ----------------------------------------------- parse_args, configuration
\* parse_args with -c: WavefrontConfiguration.__init__ reads the global
\* section and starts the loop over the names of `threads`.
ParseArgsConfig ==
    /\ pc = "parse_args"
    /\ input.config
    /\ pc' = "config_loop"
    /\ idx' = 1
    /\ thread_configs' = <<>>
    /\ UNCHANGED <<input, cli, outcome, resolved, obj_verbose, pidlock, handlers,
                   cancel, threads, threads_alive, ec, waited,
                   waits_after_cancel, alive_at_cancel>>

\* A constructor that stores the command name and resolves nothing.
LoadThreadLazy ==
    /\ pc = "config_loop"
    /\ idx <= Len(input.sections)
    /\ thread_configs' = Append(thread_configs,
          [command |-> input.sections[idx].command,
           command_object |-> 0,
           verbose |-> input.verbose,
           delay |-> input.sections[idx].delay])
    /\ idx' = idx + 1
    /\ UNCHANGED <<input, cli, pc, outcome, resolved, obj_verbose, pidlock,
                   handlers, cancel, threads, threads_alive, ec, waited,
                   waits_after_cancel, alive_at_cancel>>

\* One pass of the loop: WavefrontThreadConfiguration.__init__ for the
\* section of the next name.  An error of get_command_object leaves the
\* constructor, parse_args and main: the process ends with it.
LoadThread ==
    /\ pc = "config_loop"
    /\ idx <= Len(input.sections)
    /\ \E loads \in BOOLEAN :
         LET section == input.sections[idx]
             got == get_command_object(section.command, loads,
                                       ConfigObject(idx))
         IN  IF got.err # NoErr
             THEN /\ pc' = "exited"
                  /\ outcome' = got.err.type
                  /\ UNCHANGED <<idx, thread_configs, resolved, obj_verbose>>
             ELSE /\ resolved' = resolved \cup
                        {[command |-> section.command, inst |-> got.inst,
                          by |-> "config", at |-> idx]}
                  /\ obj_verbose' = Instantiated(got.inst)
                  /\ thread_configs' = Append(thread_configs,
                        [command |-> section.command,
                         command_object |-> got.inst,
                         verbose |-> input.verbose,
                         delay |-> section.delay])
                  /\ idx' = idx + 1
                  /\ UNCHANGED <<pc, outcome>>
    /\ UNCHANGED <<input, cli, pidlock, handlers, cancel, threads, threads_alive,
                   ec, waited, waits_after_cancel, alive_at_cancel>>

\* The loop is over: the configuration is built and parse_args returns it.
ConfigBuilt ==
    /\ pc = "config_loop"
    /\ idx > Len(input.sections)
    /\ pc' = "main"
    /\ UNCHANGED <<input, cli, outcome, idx, thread_configs, resolved, obj_verbose,
                   pidlock, handlers, cancel, threads, threads_alive, ec,
                   waited, waits_after_cancel, alive_at_cancel>>

\* parse_args without -c: the parser and its sub-parsers are created and
\* the loop over INSTALLED_COMMANDS starts.
ParseArgsAdhoc ==
    /\ pc = "parse_args"
    /\ ~input.config
    /\ pc' = "enumerate"
    /\ UNCHANGED <<input, cli, outcome, idx, thread_configs, resolved,
                   obj_verbose, pidlock, handlers, cancel, threads,
                   threads_alive, ec, waited, waits_after_cancel,
                   alive_at_cancel>>

\* What one pass of the loop may meet: the module imports and the class
\* builds a command, the import fails, or the module imports but getting or
\* calling the class fails.
LoadResults == {"loaded", "import fails", "class fails"}

\* A pass of the loop without the try around the import.
EnumerateCommandNoTry ==
    /\ pc = "enumerate"
    /\ \E command_name \in INSTALLED_COMMANDS \ cli.visited :
       \E load \in LoadResults :
         IF load = "loaded"
         THEN /\ cli' = [cli EXCEPT !.visited = @ \cup {command_name},
                                    !.added = @ \cup {command_name}]
              /\ UNCHANGED <<pc, outcome>>
         ELSE /\ cli' = [cli EXCEPT !.visited = @ \cup {command_name}]
              /\ pc' = "exited"
              /\ outcome' = IF load = "import fails" THEN "ImportError"
                            ELSE "AttributeError"
    /\ UNCHANGED <<input, idx, thread_configs, resolved, obj_verbose, pidlock,
                   handlers, cancel, threads, threads_alive, ec, waited,
                   waits_after_cancel, alive_at_cancel>>

\* One pass of `for command_name, details in INSTALLED_COMMANDS.iteritems()`
\* (the dictionary gives its keys in no stated order).  Only the import is
\* inside the try: when it fails the command is reported and skipped; an
\* error of getattr(module, class_name)() leaves parse_args and main.
EnumerateCommand ==
    /\ pc = "enumerate"
    /\ \E command_name \in INSTALLED_COMMANDS \ cli.visited :
       \E load \in LoadResults :
         CASE load = "loaded" ->
                /\ cli' = [cli EXCEPT !.visited = @ \cup {command_name},
                                      !.added = @ \cup {command_name}]
                /\ UNCHANGED <<pc, outcome>>
           [] load = "import fails" ->
                /\ cli' = [cli EXCEPT !.visited = @ \cup {command_name},
                                      !.skipped = @ \cup {command_name}]
                /\ UNCHANGED <<pc, outcome>>
           [] load = "class fails" ->
                /\ cli' = [cli EXCEPT !.visited = @ \cup {command_name}]
                /\ pc' = "exited"
                /\ outcome' = "AttributeError"
    /\ UNCHANGED <<input, idx, thread_configs, resolved, obj_verbose, pidlock,
                   handlers, cancel, threads, threads_alive, ec, waited,
                   waits_after_cancel, alive_at_cancel>>

\* After the loop: the global options are added and parser.parse_args()
\* reads the command line; a command without sub-parser is refused by
\* argparse, which exits the process.
ParseCommandLine ==
    /\ pc = "enumerate"
    /\ cli.visited = INSTALLED_COMMANDS
    /\ IF input.command \in cli.added
       THEN /\ pc' = "main"
            /\ UNCHANGED outcome
       ELSE /\ pc' = "exited"
            /\ outcome' = "SystemExit"
    /\ UNCHANGED <<input, cli, idx, thread_configs, resolved, obj_verbose,
                   pidlock, handlers, cancel, threads, threads_alive, ec,
                   waited, waits_after_cancel, alive_at_cancel>>

\* ------------------------------------------------------------------- main
\* A main that calls execute_commands without entering the DaemonContext,
\* so without the PID lock.
MainWithoutLock ==
    /\ pc = "main"
    /\ pc' = "execute_commands"
    /\ UNCHANGED <<input, cli, outcome, idx, thread_configs, resolved, obj_verbose,
                   pidlock, handlers, cancel, threads, threads_alive, ec,
                   waited, waits_after_cancel, alive_at_cancel>>

\* main after parse_args: with args.daemon the DaemonContext is entered
\* first, which acquires the PID lock file or fails when it is held.
Main ==
    /\ pc = "main"
    /\ IF input.daemon
       THEN \E held \in BOOLEAN :
              IF held
              THEN /\ pc' = "exited"
                   /\ outcome' = "AlreadyLocked"
                   /\ UNCHANGED pidlock
              ELSE /\ pc' = "execute_commands"
                   /\ pidlock' = "acquired"
                   /\ UNCHANGED outcome
       ELSE /\ pc' = "execute_commands"
            /\ UNCHANGED <<pidlock, outcome>>
    /\ UNCHANGED <<input, cli, idx, thread_configs, resolved, obj_verbose, handlers,
                   cancel, threads, threads_alive, ec, waited,
                   waits_after_cancel, alive_at_cancel>>

\* ------------------------------------------------------- execute_commands
\* An execute_commands that never calls utils.setup_signal_handlers.
WithoutSignalHandlers ==
    /\ pc = "execute_commands"
    /\ IF input.config
       THEN /\ pc' = "start_loop"
            /\ idx' = 1
            /\ threads' = <<>>
            /\ UNCHANGED ec
       ELSE /\ pc' = "adhoc"
            /\ ec' = [ec EXCEPT ![MainThread] =
                        [Idle EXCEPT !.pc = "try",
                                     !.command = input.command,
                                     !.verbose = input.verbose]]
            /\ UNCHANGED <<idx, threads>>
    /\ UNCHANGED <<input, cli, outcome, thread_configs, resolved, obj_verbose,
                   pidlock, handlers, cancel, threads_alive, waited,
                   waits_after_cancel, alive_at_cancel>>

\* Entry of execute_commands: the signal handlers are installed, then the
\* mode is chosen; in ad-hoc mode the main thread calls execute_command.
SetupSignalHandlers ==
    /\ pc = "execute_commands"
    /\ handlers' = TRUE
    /\ IF input.config
       THEN /\ pc' = "start_loop"
            /\ idx' = 1
            /\ threads' = <<>>
            /\ UNCHANGED ec
       ELSE /\ pc' = "adhoc"
            /\ ec' = [ec EXCEPT ![MainThread] =
                        [Idle EXCEPT !.pc = "try",
                                     !.command = input.command,
                                     !.verbose = input.verbose]]
            /\ UNCHANGED <<idx, threads>>
    /\ UNCHANGED <<input, cli, outcome, thread_configs, resolved, obj_verbose,
                   pidlock, cancel, threads_alive, waited, waits_after_cancel,
                   alive_at_cancel>>

\* A thread started without being marked daemon.
StartThreadNotDaemon ==
    /\ pc = "start_loop"
    /\ idx <= Len(thread_configs)
    /\ LET conf == thread_configs[idx]
       IN  ec' = [ec EXCEPT ![idx] =
                    [Idle EXCEPT !.pc = "try",
                                 !.command = conf.command,
                                 !.verbose = conf.verbose,
                                 !.delay = conf.delay,
                                 !.daemon = FALSE]]
    /\ threads' = Append(threads, idx)
    /\ idx' = idx + 1
    /\ UNCHANGED <<input, cli, pc, outcome, thread_configs, resolved, obj_verbose,
                   pidlock, handlers, cancel, threads_alive, waited,
                   waits_after_cancel, alive_at_cancel>>

\* A thread that sleeps conf.delay seconds before it is started.
StartThreadAfterDelay ==
    /\ pc = "start_loop"
    /\ idx <= Len(thread_configs)
    /\ LET conf == thread_configs[idx]
       IN  /\ ec' = [ec EXCEPT ![idx] =
                       [Idle EXCEPT !.pc = "try",
                                    !.command = conf.command,
                                    !.verbose = conf.verbose,
                                    !.delay = conf.delay,
                                    !.daemon = TRUE]]
           /\ waited' = (waited \/ conf.delay > 0)
    /\ threads' = Append(threads, idx)
    /\ idx' = idx + 1
    /\ UNCHANGED <<input, cli, pc, outcome, thread_configs, resolved, obj_verbose,
                   pidlock, handlers, cancel, threads_alive,
                   waits_after_cancel, alive_at_cancel>>

\* One pass of `for conf in args.thread_configs`: the thread is built on
\* execute_command(conf.command, conf.args), marked daemon, appended and
\* started.
StartThread ==
    /\ pc = "start_loop"
    /\ idx <= Len(thread_configs)
    /\ LET conf == thread_configs[idx]
       IN  ec' = [ec EXCEPT ![idx] =
                    [Idle EXCEPT !.pc = "try",
                                 !.command = conf.command,
                                 !.verbose = conf.verbose,
                                 !.delay = conf.delay,
                                 !.daemon = TRUE]]
    /\ threads' = Append(threads, idx)
    /\ idx' = idx + 1
    /\ UNCHANGED <<input, cli, pc, outcome, thread_configs, resolved, obj_verbose,
                   pidlock, handlers, cancel, threads_alive, waited,
                   waits_after_cancel, alive_at_cancel>>

\* threads_alive = threads[:]
CopyThreads ==
    /\ pc = "start_loop"
    /\ idx > Len(thread_configs)
    /\ threads_alive' = threads
    /\ pc' = "while"
    /\ UNCHANGED <<input, cli, outcome, idx, thread_configs, resolved, obj_verbose,
                   pidlock, handlers, cancel, threads, ec, waited,
                   waits_after_cancel, alive_at_cancel>>

\* A liveness test that keeps reporting a thread whose execute_command
\* ended with an error as alive.
is_alive_until_success(thread) ==
    ec[thread].pc \in {"try", "execute", "printed", "raised"}

\* thread.is_alive(): started and execute_command has not ended.
is_alive(thread) == ec[thread].pc \in {"try", "execute"}

\* Where the main thread goes when main is over: the interpreter first
\* joins every thread that is alive and not daemon, then the process ends
\* (daemon threads are abandoned).
ProcessEnd ==
    IF \A t \in Workers : is_alive(t) => ec[t].daemon
    THEN "exited"
    ELSE "joining"

\* A loop that sleeps one polling interval before it first tests its
\* condition.
WhileTestPollsFirst ==
    /\ pc = "while"
    /\ IF ~waited
       THEN /\ waited' = TRUE
            /\ UNCHANGED <<pc, idx, outcome>>
       ELSE /\ UNCHANGED waited
            /\ IF threads_alive # <<>> /\ ~cancel
               THEN /\ pc' = "for"
                    /\ idx' = 1
                    /\ UNCHANGED outcome
               ELSE /\ pc' = ProcessEnd
                    /\ outcome' = "success"
                    /\ UNCHANGED idx
    /\ UNCHANGED <<input, cli, thread_configs, resolved, obj_verbose, pidlock,
                   handlers, cancel, threads, threads_alive, ec,
                   waits_after_cancel, alive_at_cancel>>

\* A loop exit that stops the workers still running when it leaves on
\* cancellation.
WhileTestStopsWorkers ==
    /\ pc = "while"
    /\ IF threads_alive # <<>> /\ ~cancel
       THEN /\ pc' = "for"
            /\ idx' = 1
            /\ UNCHANGED <<outcome, ec>>
       ELSE /\ pc' = ProcessEnd
            /\ outcome' = "success"
            /\ ec' = [t \in Callers |->
                        IF t \in Workers /\ is_alive(t)
                        THEN [ec[t] EXCEPT !.pc = "raised",
                                !.err = [type |-> "SystemExit", message |-> ""]]
                        ELSE ec[t]]
            /\ UNCHANGED idx
    /\ UNCHANGED <<input, cli, thread_configs, resolved, obj_verbose, pidlock,
                   handlers, cancel, threads, threads_alive, waited,
                   waits_after_cancel, alive_at_cancel>>

\* A loop condition that never reads the cancellation flag.
WhileTestIgnoresCancel ==
    /\ pc = "while"
    /\ IF threads_alive # <<>>
       THEN /\ pc' = "for"
            /\ idx' = 1
            /\ UNCHANGED outcome
       ELSE /\ pc' = ProcessEnd
            /\ outcome' = "success"
            /\ UNCHANGED idx
    /\ UNCHANGED <<input, cli, thread_configs, resolved, obj_verbose, pidlock,
                   handlers, cancel, threads, threads_alive, ec, waited,
                   waits_after_cancel, alive_at_cancel>>

\* The condition of the while loop; when it is false execute_commands and
\* main return and the process ends with success, see ProcessEnd.
WhileTest ==
    /\ pc = "while"
    /\ IF threads_alive # <<>> /\ ~cancel
       THEN /\ pc' = "for"
            /\ idx' = 1
            /\ UNCHANGED outcome
       ELSE /\ pc' = ProcessEnd
            /\ outcome' = "success"
            /\ UNCHANGED idx
    /\ UNCHANGED <<input, cli, thread_configs, resolved, obj_verbose, pidlock,
                   handlers, cancel, threads, threads_alive, ec, waited,
                   waits_after_cancel, alive_at_cancel>>

\* The position after the body of `for thread in threads` ran for
\* threads[idx]: the next thread, or back to the while condition.
NextThread ==
    IF idx < Len(threads)
    THEN pc' = "for" /\ idx' = idx + 1
    ELSE pc' = "while" /\ UNCHANGED idx

\* The branch thread.join(1) of the loop body: the main thread blocks until
\* the thread ends or one second has passed.
JoinThread ==
    /\ pc = "for"
    /\ is_alive(threads[idx])
    /\ waited' = TRUE
    /\ waits_after_cancel' = IF cancel THEN waits_after_cancel + 1
                             ELSE waits_after_cancel
    /\ NextThread
    /\ UNCHANGED <<input, cli, outcome, thread_configs, resolved, obj_verbose,
                   pidlock, handlers, cancel, threads, threads_alive, ec,
                   alive_at_cancel>>

\* A loop body that removes the thread without asking whether it is alive.
RemoveThreadAnyway ==
    /\ pc = "for"
    /\ IF In(threads[idx], threads_alive)
       THEN /\ threads_alive' = Remove(threads_alive, threads[idx])
            /\ NextThread
            /\ UNCHANGED outcome
       ELSE /\ pc' = ProcessEnd
            /\ outcome' = "ValueError"
            /\ UNCHANGED <<idx, threads_alive>>
    /\ UNCHANGED <<input, cli, thread_configs, resolved, obj_verbose, pidlock,
                   handlers, cancel, threads, ec, waited, waits_after_cancel,
                   alive_at_cancel>>

\* The branch threads_alive.remove(thread) of the loop body; list.remove
\* raises ValueError when the thread is not in the list, which leaves
\* execute_commands and main.
RemoveThread ==
    /\ pc = "for"
    /\ ~is_alive(threads[idx])
    /\ IF In(threads[idx], threads_alive)
       THEN /\ threads_alive' = Remove(threads_alive, threads[idx])
            /\ NextThread
            /\ UNCHANGED outcome
       ELSE /\ pc' = ProcessEnd
            /\ outcome' = "ValueError"
            /\ UNCHANGED <<idx, threads_alive>>
    /\ UNCHANGED <<input, cli, thread_configs, resolved, obj_verbose, pidlock,
                   handlers, cancel, threads, ec, waited, waits_after_cancel,
                   alive_at_cancel>>

\* -------------------------------------------------- cancellation (utils)
\* A termination signal is delivered: the handler installed by
\* utils.setup_signal_handlers sets CANCEL_WORKERS_EVENT.
Cancel ==
    /\ handlers
    /\ ~cancel
    /\ pc # "exited"
    /\ cancel' = TRUE
    /\ alive_at_cancel' = Cardinality({t \in Workers : is_alive(t)})
    /\ UNCHANGED <<input, cli, pc, outcome, idx, thread_configs, resolved,
                   obj_verbose, pidlock, handlers, threads, threads_alive, ec,
                   waited, waits_after_cancel>>


\* -------------------------------------------------------- execute_command
\* A handler that, without verbose, prints the message and runs the try
\* block again.
ExceptRetries(call, err, where) ==
    IF IsException(err.type) /\ ~call.verbose
    THEN [call EXCEPT !.pc = "try", !.err = err, !.failed = where,
                      !.printed = <<err.message>>]
    ELSE [call EXCEPT !.pc = "raised", !.err = err, !.failed = where]

\* A handler that re-raises whatever the verbose flag says.
ExceptAlwaysRaises(call, err, where) ==
    [call EXCEPT !.pc = "raised", !.err = err, !.failed = where]

\* A handler that prints and swallows whatever the verbose flag says.
ExceptAlwaysPrints(call, err, where) ==
    IF IsException(err.type)
    THEN [call EXCEPT !.pc = "printed", !.err = err, !.failed = where,
                      !.printed = Append(@, err.message)]
    ELSE [call EXCEPT !.pc = "raised", !.err = err, !.failed = where]

\* `except Exception as command_err`: with args.verbose the error is raised
\* again, otherwise its message is printed and execute_command returns.  An
\* exception that is no Exception passes the clause.  `where` records the
\* statement of the try block that raised.
Except(call, err, where) ==
    IF IsException(err.type) /\ ~call.verbose
    THEN [call EXCEPT !.pc = "printed", !.err = err, !.failed = where,
                      !.printed = Append(@, err.message)]
    ELSE [call EXCEPT !.pc = "raised", !.err = err, !.failed = where]

\* The end of caller t's execute_command: a worker thread just ends; in the
\* main thread execute_commands and main return, or the error leaves them.
Ended(t, call) ==
    IF t = MainThread /\ call.pc \in {"returned", "printed", "raised"}
    THEN /\ pc' = "exited"
         /\ outcome' = IF call.pc = "raised" THEN call.err.type ELSE "success"
    ELSE UNCHANGED <<pc, outcome>>

\* Caller t may take a step: its thread runs and the process has not ended.
Runs(t) == pc # "exited" /\ (t = MainThread => pc = "adhoc")

\* A call of get_command_object placed before the try block: its errors
\* never reach the except clause.
GetCommandObjectOutsideTry(t) ==
    /\ Runs(t)
    /\ ec[t].pc = "try"
    /\ \E loads \in BOOLEAN :
         LET got == get_command_object(ec[t].command, loads, CallObject(t))
             call == IF got.err # NoErr
                     THEN [ec[t] EXCEPT !.pc = "raised", !.err = got.err,
                                        !.failed = "get_command_object"]
                     ELSE [ec[t] EXCEPT !.pc = "execute", !.inst = got.inst]
         IN  /\ ec' = [ec EXCEPT ![t] = call]
             /\ IF got.err # NoErr
                THEN UNCHANGED <<resolved, obj_verbose>>
                ELSE /\ resolved' = resolved \cup
                           {[command |-> ec[t].command, inst |-> got.inst,
                             by |-> "execute_command", at |-> t]}
                     /\ obj_verbose' = [Instantiated(got.inst) EXCEPT
                                          ![got.inst] = Str(ec[t].verbose)]
             /\ Ended(t, call)
    /\ UNCHANGED <<input, cli, idx, thread_configs, pidlock, handlers, cancel,
                   threads, threads_alive, waited, waits_after_cancel,
                   alive_at_cancel>>

\* First statements of the try block: get_command_object, the log line and
\* command_object.verbose = args.verbose.
GetCommandObject(t) ==
    /\ Runs(t)
    /\ ec[t].pc = "try"
    /\ \E loads \in BOOLEAN :
         LET got == get_command_object(ec[t].command, loads, CallObject(t))
             call == IF got.err # NoErr
                     THEN Except(ec[t], got.err, "get_command_object")
                     ELSE [ec[t] EXCEPT !.pc = "execute", !.inst = got.inst]
         IN  /\ ec' = [ec EXCEPT ![t] = call]
             /\ IF got.err # NoErr
                THEN UNCHANGED <<resolved, obj_verbose>>
                ELSE /\ resolved' = resolved \cup
                           {[command |-> ec[t].command, inst |-> got.inst,
                             by |-> "execute_command", at |-> t]}
                     /\ obj_verbose' = [Instantiated(got.inst) EXCEPT
                                          ![got.inst] = Str(ec[t].verbose)]
             /\ Ended(t, call)
    /\ UNCHANGED <<input, cli, idx, thread_configs, pidlock, handlers, cancel,
                   threads, threads_alive, waited, waits_after_cancel,
                   alive_at_cancel>>

\* command_object.execute(args) comes back: it returns or raises.
Execute(t) ==
    /\ Runs(t)
    /\ ec[t].pc = "execute"
    /\ \E result \in ExecuteResults :
         LET invoked == [ec[t] EXCEPT !.calls = @ + 1]
             call == IF result.kind = "return"
                     THEN [invoked EXCEPT !.pc = "returned"]
                     ELSE Except(invoked,
                                 [type |-> result.type,
                                  message |-> result.message], "execute")
         IN  /\ ec' = [ec EXCEPT ![t] = call]
             /\ Ended(t, call)
    /\ UNCHANGED <<input, cli, idx, thread_configs, resolved, obj_verbose, pidlock,
                   handlers, cancel, threads, threads_alive, waited,
                   waits_after_cancel, alive_at_cancel>>

\* ------------------------------------------------------------------- Next
Next ==
    \/ ParseArgsConfig
    \/ LoadThread
    \/ ConfigBuilt
    \/ ParseArgsAdhoc
    \/ EnumerateCommand
    \/ ParseCommandLine
    \/ Main
    \/ SetupSignalHandlers
    \/ StartThread
    \/ CopyThreads
    \/ WhileTest
    \/ JoinThread
    \/ RemoveThread
    \/ Cancel
    \/ \E t \in Callers : GetCommandObject(t)
    \/ \E t \in Callers : Execute(t)

Spec == Init /\ [][Next]_vars


\* ================================================================= claims
\* Multi-task mode got as far as execute_commands and the process is over.
MultiTaskOver == input.config /\ handlers /\ pc = "exited"

\* C1: in multi-task mode, absent cancellation, exactly N workers are
\* started and, whatever the order in which they finish, the alive list
\* ends empty and execute_commands returns normally, without raising.
C1_ReturnsNormally ==
    (MultiTaskOver /\ ~cancel) =>
        /\ outcome = "success"
        /\ threads_alive = <<>>
        /\ Len(threads) = Len(input.sections)

\* C2 as claimed: after the cancellation flag is set at most one further
\* join(1) is performed before the supervision loop exits.
C2_OneFurtherWait == waits_after_cancel <= 1

\* C2 as amended: after the flag is set the loop only finishes the pass it
\* is in, so it performs at most one join(1) per worker that was alive when
\* the flag was set, and the next test of the loop condition ends the loop
\* with success whether or not workers are still alive.
C2_AtMostOnePass ==
    [][ /\ waits_after_cancel' <= alive_at_cancel'
        /\ (cancel /\ pc = "while" /\ pc' # pc) =>
               (pc' = "exited" /\ outcome' = "success") ]_vars

\* C2 witness: the loop has exited on cancellation after two further waits
\* while both workers are still alive.
C2_Witness ==
    /\ pc = "exited" /\ outcome = "success" /\ cancel
    /\ waits_after_cancel = 2
    /\ is_alive(1) /\ is_alive(2)

\* The ad-hoc call of execute_command whose execute raised an Exception.
AdhocExecuteRaised ==
    /\ ~input.config
    /\ ec[MainThread].failed = "execute"
    /\ IsException(ec[MainThread].err.type)

\* C3: in ad-hoc mode with verbose false, an error raised by execute has
\* its message printed, execute_command returns without raising and the
\* process ends with success.
C3_QuietErrorIsPrinted ==
    (AdhocExecuteRaised /\ ~input.verbose) =>
        /\ ec[MainThread].pc = "printed"
        /\ ec[MainThread].printed = <<ec[MainThread].err.message>>
        /\ pc = "exited"
        /\ outcome = "success"

\* C3 witness: execute raised ValueError("bad key") without --verbose and
\* "bad key" was printed.
C3_Witness ==
    /\ AdhocExecuteRaised /\ ~input.verbose
    /\ ec[MainThread].err = [type |-> "ValueError", message |-> "bad key"]
    /\ ec[MainThread].printed = <<"bad key">>
    /\ outcome = "success"

\* C4: in ad-hoc mode with verbose true, an error raised by execute leaves
\* execute_command unchanged (nothing is printed in its place) and the
\* process ends with that error, not with success.
C4_VerboseErrorPropagates ==
    (AdhocExecuteRaised /\ input.verbose) =>
        /\ ec[MainThread].pc = "raised"
        /\ ec[MainThread].printed = <<>>
        /\ pc = "exited"
        /\ outcome = ec[MainThread].err.type
        /\ outcome # "success"

\* C4 witness: execute raised ValueError with --verbose and the process
\* ended with ValueError.
C4_Witness ==
    /\ AdhocExecuteRaised /\ input.verbose
    /\ ec[MainThread].calls = 1
    /\ outcome = "ValueError"

\* Some listed task names a command that is no key of INSTALLED_COMMANDS.
NamesUnknownCommand ==
    /\ input.config
    /\ \E k \in 1..Len(input.sections) :
         input.sections[k].command \notin INSTALLED_COMMANDS

\* C5: when a listed task names an unknown command, building the
\* configuration fails (parse_args never returns it) and no worker is ever
\* started, not even for the tasks listed before the offending one.
C5_UnknownCommandStartsNothing ==
    NamesUnknownCommand =>
        /\ pc \in {"parse_args", "config_loop", "exited"}
        /\ pc = "exited" => outcome \in {"KeyError", "ImportError"}
        /\ ~handlers
        /\ threads = <<>>
        /\ \A t \in Callers : ec[t].pc = "idle"

\* C5 witness: construction failed with KeyError on a task listed after one
\* whose command had been resolved.
C5_Witness ==
    /\ NamesUnknownCommand
    /\ pc = "exited" /\ outcome = "KeyError"
    /\ Len(thread_configs) >= 1


\* Every configured task has a started worker.
AllStarted ==
    /\ Len(threads) = Len(input.sections)
    /\ \A k \in 1..Len(threads) : ec[threads[k]].pc # "idle"

\* C6: whatever the delays of the tasks, the main thread has not waited
\* before every worker is started (no wait precedes a start), and when the
\* supervision loop begins the alive list holds every started worker.
C6_AllStartBeforeAnyWait ==
    [][ /\ waited' => (AllStarted' /\ pc' # "start_loop")
        /\ (pc = "start_loop" /\ pc' = "while") =>
               (AllStarted' /\ threads_alive' = threads' /\ ~waited') ]_vars

\* C6 witness: the loop has waited on the workers of two tasks, one of them
\* with a delay of 5 seconds.
C6_Witness ==
    /\ waited
    /\ Len(threads) = 2
    /\ \E k \in 1..Len(thread_configs) : thread_configs[k].delay > 0

\* execute_command of caller t has ended with an error.
EndedInError(t) == ec[t].pc \in {"printed", "raised"}

\* C7: in multi-task mode a step in which one worker ends with an error
\* (swallowed or re-raised) changes no other worker, and the loop body,
\* when it reaches a worker that ended with an error, does what it does for
\* one that returned: it does not wait and removes it from the alive list.
C7_ErrorEndsOnlyThatWorker ==
    [][ /\ \A t \in Workers :
             (EndedInError(t)' /\ ~EndedInError(t)) =>
                 /\ \A u \in Callers \ {t} : ec'[u] = ec[u]
                 /\ UNCHANGED <<pc, outcome, threads, threads_alive>>
        /\ (pc = "for" /\ <<pc, idx, outcome>>' # <<pc, idx, outcome>>
               /\ ec[threads[idx]].pc \in {"returned", "printed", "raised"}
               /\ In(threads[idx], threads_alive)) =>
                 /\ threads_alive' = Remove(threads_alive, threads[idx])
                 /\ waited' = waited
                 /\ outcome' = outcome ]_vars

\* C7 witness: worker 1 ended with an error raised by execute, it has been
\* removed from the alive list, worker 2 is still executing.
C7_Witness ==
    /\ EndedInError(1) /\ ec[1].failed = "execute"
    /\ threads_alive = <<2>>
    /\ ec[2].pc = "execute"

\* C8: the step that sets the cancellation flag, and the step in which the
\* supervision loop exits because of it, leave the execution state of every
\* worker unchanged.
C8_CancelTouchesNoWorker ==
    [][ (cancel' # cancel \/ (cancel /\ pc = "while" /\ pc' = "exited"))
            => ec' = ec ]_vars

\* C8 witness: the loop exited on cancellation while a worker was still
\* inside execute.
C8_Witness ==
    /\ pc = "exited" /\ outcome = "success" /\ cancel
    /\ \E t \in Workers : ec[t].pc = "execute" /\ In(t, threads_alive)

\* C9: every call of get_command_object returns an instance no earlier call
\* returned, so no two callers execute the same instance, a worker's
\* instance is not the one its task configuration holds, and setting
\* verbose on a worker's instance leaves the configurations' instances as
\* they were.
C9_FreshInstances ==
    /\ \A r1, r2 \in resolved : r1 # r2 => r1.inst # r2.inst
    /\ \A t, u \in Callers :
         (t # u /\ ec[t].inst # 0 /\ ec[u].inst # 0) => ec[t].inst # ec[u].inst
    /\ \A t \in Workers :
         ec[t].inst # 0 => ec[t].inst # thread_configs[t].command_object
    /\ \A k \in 1..Len(thread_configs) :
         obj_verbose[thread_configs[k].command_object] = "unset"

\* C9 witness: two workers of tasks naming the same command each execute
\* an instance of their own.
C9_Witness ==
    /\ ec[1].pc = "execute" /\ ec[2].pc = "execute"
    /\ ec[1].command = ec[2].command
    /\ ec[1].inst # ec[2].inst

\* Resolving the command failed inside caller t's execute_command.
ResolutionFailed(t) == ec[t].failed = "get_command_object"

\* C10 as claimed: when resolving a command for execution fails, execute is
\* never invoked and the failure propagates to the caller, for both values
\* of the verbose flag.
C10_ResolutionFailurePropagates ==
    \A t \in Callers :
        ResolutionFailed(t) => (ec[t].calls = 0 /\ ec[t].pc = "raised")

\* C10 as amended: when resolving a command for execution fails, execute is
\* never invoked; with verbose true the failure propagates to the caller,
\* with verbose false its message is printed and execute_command returns
\* normally (in ad-hoc mode the process ends with success).
C10_ResolutionFailureFollowsVerbose ==
    \A t \in Callers :
        ResolutionFailed(t) =>
            /\ ec[t].calls = 0
            /\ ec[t].verbose =>
                   /\ ec[t].pc = "raised"
                   /\ ec[t].printed = <<>>
                   /\ t = MainThread => outcome = ec[t].err.type
            /\ ~ec[t].verbose =>
                   /\ ec[t].pc = "printed"
                   /\ ec[t].printed = <<ec[t].err.message>>
                   /\ t = MainThread => outcome = "success"

\* C10 witness: an ad-hoc command failed to load without --verbose; the
\* message was printed and the process ended with success.
C10_Witness ==
    /\ ResolutionFailed(MainThread)
    /\ ~ec[MainThread].verbose
    /\ ec[MainThread].printed = <<"load failed">>
    /\ outcome = "success"

\* execute_commands has been entered, or some caller has been started.
Orchestrating ==
    \/ handlers
    \/ pc \in {"execute_commands", "start_loop", "while", "for", "adhoc"}
    \/ threads # <<>>
    \/ \E t \in Callers : ec[t].pc # "idle"

\* C11: in daemon mode, when the PID lock is held by another instance,
\* startup fails before execute_commands is entered and no worker is ever
\* started; whenever execute_commands runs in daemon mode the PID lock was
\* acquired first.
C11_LockBeforeOrchestration ==
    /\ (input.daemon /\ Orchestrating) => pidlock = "acquired"
    /\ outcome = "AlreadyLocked" =>
           (input.daemon /\ ~Orchestrating /\ pidlock = "none")

\* C11 witness: daemon mode was requested for a configuration with tasks,
\* the PID lock was held, and the process ended before orchestration.
C11_Witness ==
    /\ input.daemon /\ input.config /\ Len(thread_configs) >= 1
    /\ pc = "exited" /\ outcome = "AlreadyLocked"
    /\ ~Orchestrating

\* The configuration declares no task.
NoTasks == input.config /\ input.sections = <<>>

\* C12: with zero tasks, multi-task mode starts no worker, never waits and
\* never enters the loop body; once set up, execute_commands returns with
\* success at the first test of the loop condition, whether or not the
\* cancellation flag is set.
C12_NoTasksNoWait ==
    NoTasks =>
        /\ threads = <<>> /\ threads_alive = <<>>
        /\ \A t \in Callers : ec[t].pc = "idle"
        /\ ~waited
        /\ pc # "for"
        /\ (pc = "exited" /\ handlers) => outcome = "success"

\* C12 witness: a configuration without tasks returned with success although
\* the cancellation flag had been set.
C12_Witness ==
    /\ NoTasks /\ handlers /\ cancel
    /\ pc = "exited" /\ outcome = "success"

C14_ExitsOnlyWhenDoneOrCancelled ==
    (input.config /\ handlers /\ pc = "exited") =>
        (threads_alive = <<>> \/ cancel)

\* C15: every worker is marked daemon before it is started, so every
\* started worker is daemon, and the end of the process after the
\* supervision loop (on cancellation, normally or by an error) never waits
\* for a worker that is still running.
C15_WorkersAreDaemon ==
    /\ \A t \in Workers : ec[t].pc # "idle" => ec[t].daemon
    /\ pc # "joining"

\* C15 witness: the process has ended after cancellation while a daemon
\* worker had not even reached execute.
C15_Witness ==
    /\ pc = "exited" /\ cancel /\ handlers
    /\ \E t \in Workers : ec[t].pc = "try" /\ ec[t].daemon

\* execute_command of caller t is over.
Over(t) == ec[t].pc \in {"returned", "printed", "raised"}

\* C16: each task's command is executed at most once: one worker is started
\* per task configuration, execute is invoked at most once per caller, and
\* a caller whose execute_command is over (execute returned, or its error
\* was swallowed or re-raised) never runs again.
C16_ExecutedAtMostOnce ==
    [][ /\ \A t \in Callers :
             /\ ec'[t].calls <= 1
             /\ Over(t) => ec'[t] = ec[t]
        /\ Len(threads') <= Len(thread_configs')
        /\ \A j, k \in 1..Len(threads') : j # k => threads'[j] # threads'[k] ]_vars

\* C16 witness: the worker of the only task had its error swallowed after
\* one call of execute, and the supervision loop then returned normally.
C16_Witness ==
    /\ Len(threads) = 1
    /\ ec[1].pc = "printed" /\ ec[1].failed = "execute" /\ ec[1].calls = 1
    /\ pc = "exited" /\ outcome = "success" /\ ~cancel

\* The loop of parse_args has dealt with every command it visited: each one
\* got a sub-parser or was skipped.
AllDealtWith ==
    /\ cli.added \cap cli.skipped = {}
    /\ cli.added \cup cli.skipped = cli.visited

\* C17 as claimed: whichever commands fail to load (missing module, or
\* broken or missing command type), each of them is skipped, every other
\* command is added, and the enumeration never aborts.
C17_EnumerationNeverAborts ==
    ~input.config => (AllDealtWith /\ outcome # "AttributeError")

\* C17 as amended: whichever commands fail to import their module, each of
\* them is skipped, every other command the loop visits is added, and no
\* import failure ends parse_args; the loop leaves a command undealt with
\* only when getting or calling its command type fails, which is not
\* caught and ends parse_args with that error.
C17_ImportFailuresAreSkipped ==
    ~input.config =>
        /\ cli.added \cap cli.skipped = {}
        /\ cli.added \cup cli.skipped \subseteq cli.visited
        /\ outcome # "AttributeError" => AllDealtWith
        /\ (pc \notin {"parse_args", "enumerate"} /\ outcome # "AttributeError")
               => cli.visited = INSTALLED_COMMANDS
        /\ outcome = "ImportError" => handlers

\* C17 witness: the enumeration is complete, two commands failed to import
\* and were skipped, the third was added and is the one to run.
C17_Witness ==
    /\ ~input.config /\ pc = "main"
    /\ Cardinality(cli.skipped) = 2
    /\ cli.added = {input.command}

\* The supervision loop has begun (threads_alive = threads[:] is done).
Supervising == input.config /\ pc \in {"while", "for", "exited"} /\ threads # <<>>

\* C18: a worker leaves the alive list only after it has finished: a step
\* never removes a worker that is still running, every started worker that
\* is no longer in the list has finished, and so when the loop has exited
\* with an empty list every started worker has finished.
C18_RemovedOnlyWhenFinished ==
    [][ /\ \A t \in Workers :
             (In(t, threads_alive) /\ ~In(t, threads_alive')) => Over(t)
        /\ Supervising' =>
             \A k \in 1..Len(threads') :
                 ~In(threads'[k], threads_alive') =>
                     ec'[threads'[k]].pc \in {"returned", "printed", "raised"} ]_vars

\* C18 witness: the loop exited normally, without cancellation, with an
\* empty alive list after both workers had finished.
C18_Witness ==
    /\ pc = "exited" /\ outcome = "success" /\ ~cancel
    /\ Len(threads) = 2 /\ threads_alive = <<>>
    /\ Over(1) /\ Over(2)

\* C19: in both modes the signal handlers are installed before any worker
\* is started and before any command is executed: no caller of
\* execute_command has started while the handlers are not installed.
C19_HandlersBeforeWorkers ==
    (threads # <<>> \/ \E t \in Callers : ec[t].pc # "idle") => handlers

\* C19 witness: a worker is inside execute, and the handlers are installed.
C19_Witness ==
    /\ handlers
    /\ \E t \in Workers : ec[t].pc = "execute" /\ ec[t].calls = 0
    /\ pc = "start_loop"

=============================================================================
